---- MODULE Spec2Model ----
(***************************************************************************)
(* State-machine model of backend/app.py: the /analyze request handler,   *)
(* its image and video pipelines, the lazily initialised global handles   *)
(* (supabase, model) and the two external collaborators (object storage,  *)
(* record store).  Several requests may be in flight at once (the Flask   *)
(* development server dispatches each request on its own thread).         *)
(***************************************************************************)
EXTENDS Integers, Sequences, FiniteSets, TLC

\* ------------------------------------------------------------------ bounds
MaxReq == 2      \* requests over the life of the process, all may overlap
MaxFrames == 2   \* frames a video stream delivers at most
MaxBoxes == 1    \* boxes the detector returns for one frame at most

Reqs == 1..MaxReq

\* --------------------------------------------------------------- variables
VARIABLES
    started,     \* module import (lines 40-52) has run
    model,       \* global detector handle: "None" or "YOLO"
    supabase,    \* global storage/record client: "None" or "Client"
    modelInits,  \* number of init_model() calls that returned a detector
    nextId,      \* uuid.uuid4(): next fresh identifier
    clock,       \* datetime.now(timezone.utc): the time read by the next insert
    storage,     \* object storage: set of published destination paths
    records,     \* record store: set of inserted rows
    req          \* per-request local state of analyze()

vars == <<started, model, supabase, modelInits, nextId, clock, storage, records, req>>

\* ------------------------------------------------------------ pure helpers
\* str.startswith
StartsWith(s, p) == Len(s) >= Len(p) /\ SubSeq(s, 1, Len(p)) = p

\* Declared content types, as token sequences ("image/jpeg" = image / jpeg).
Mimetypes ==
    { <<"image", "/", "jpeg">>, <<"video", "/", "mp4">>, <<"text", "/", "plain">>,
      <<"image">>, <<>> }

is_image(mimetype) == StartsWith(mimetype, <<"image", "/">>)
is_video(mimetype) == StartsWith(mimetype, <<"video", "/">>)

\* faulty variant of Accepted: every upload that has a file goes on
Accepted_AnyFile(mimetype) == TRUE
\* line 140: the request goes on only if is_image or is_video
Accepted(mimetype) == is_image(mimetype) \/ is_video(mimetype)

\* A decoded frame: its position in the input, the number of boxes drawn on
\* it, and whether it is a copy of the decoded buffer.
OriginalFrame(i) == [src |-> i, drawn |-> 0, is_copy |-> FALSE]
NoneFrame == [src |-> 0, drawn |-> 0, is_copy |-> FALSE]

\* draw_boxes_on_image: copy, then one rectangle and one label per box
draw_boxes_on_image(frame, boxes) ==
    [src |-> frame.src, drawn |-> frame.drawn + boxes, is_copy |-> TRUE]

\* faulty variant of Annotate: the test on the detection set is inverted
Annotate_Inverted(frame, boxes) ==
    IF boxes = 0 THEN draw_boxes_on_image(frame, boxes) ELSE frame
\* lines 87 and 205: annotate only when the detection set is non-empty
Annotate(frame, boxes) ==
    IF boxes > 0 THEN draw_boxes_on_image(frame, boxes) ELSE frame

\* faulty variant of Accumulate: the flag is overwritten by each frame
Accumulate_Overwrite(any, boxes) == boxes > 0
\* lines 206-207: any_detections becomes true once a frame has a detection
Accumulate(any, boxes) == IF boxes > 0 THEN TRUE ELSE any

\* faulty variant of WriterWrite: the frame goes to the front of the sink
WriterWrite_Prepend(written, frame) == <<frame>> \o written
\* line 208: writer.write appends the frame to the output sink
WriterWrite(written, frame) == Append(written, frame)

\* faulty variant of HadDetections: an empty detection set counts as a hit
HadDetections_Lenient(boxes) == boxes >= 0
\* line 154: had_detections = len(boxes) > 0
HadDetections(boxes) == boxes > 0

\* faulty variant of ViolationType: the two labels are swapped
ViolationType_Swapped(detected) ==
    IF detected THEN "No Violation" ELSE "Violation Detected"
\* lines 162 and 215
ViolationType(detected) == IF detected THEN "Violation Detected" ELSE "No Violation"

\* lines 159 and 213
DestPath(isImage, id) == [ns |-> IF isImage THEN "images" ELSE "videos", id |-> id]
NoPath == [ns |-> "", id |-> 0]

\* File names a client sends.  Every upload carries the same name here, the
\* case in which paths built from the name alone would collide; adding the
\* empty name <<>> exercises the fallback of line 133 as well.
Filenames == {<<"clip">>}

\* line 133: file.filename or f"upload_{uuid.uuid4().hex}"
Filename(name, id) == IF name = <<>> THEN <<"upload_", id>> ELSE name

\* faulty variant of TempInPath: the fresh identifier is left out
TempInPath_NoId(id, filename) == <<0, "_">> \o filename
\* line 177: RESULTS_DIR / f"{uuid.uuid4().hex}_{filename}"
TempInPath(id, filename) == <<id, "_">> \o filename

\* lines 156 and 190: RESULTS_DIR / f"{out_id}_annotated.jpg" (or .mp4)
TempOutPath(isImage, id) == <<id, "_annotated", IF isImage THEN ".jpg" ELSE ".mp4">>

\* Frame rates a capture may report for CAP_PROP_FPS: a negative number,
\* zero (unknown) and a positive rate.
ReportedFps == {-1, 0, 30}
FallbackFps == 24
\* line 187: cap.get(cv2.CAP_PROP_FPS) or 24.0
Fps(reported) == IF reported = 0 THEN FallbackFps ELSE reported

\* ------------------------------------------------------------------- state
InitialReq ==
    [ pc |-> "idle", has_file |-> FALSE, mimetype |-> <<>>,
      decodable |-> FALSE, frames |-> <<>>,
      cap |-> "none", writer |-> "none", nread |-> 0, written |-> <<>>,
      any_detections |-> FALSE, had_detections |-> FALSE,
      out_frame |-> NoneFrame, img_none |-> FALSE,
      saved |-> FALSE, in_id |-> 0, out_id |-> 0, public_url |-> 0,
      filename |-> <<>>, temp_in_path |-> <<>>, temp_out_path |-> <<>>,
      dest_path |-> NoPath, reported_fps |-> 0, fps |-> 0,
      record |-> [violation_type |-> "", timestamp |-> 0, file_url |-> NoPath],
      status |-> 0, err |-> "", violation |-> FALSE, violation_type |-> "",
      timestamp |-> 0, file_url |-> NoPath, preview |-> NoneFrame,
      ncalls |-> 0, ninit |-> 0, nsbinit |-> 0, nupload |-> 0, ninsert |-> 0 ]

Init ==
    /\ started = FALSE
    /\ model = "None"
    /\ supabase = "None"
    /\ modelInits = 0
    /\ nextId = 1
    /\ clock = 1
    /\ storage = {}
    /\ records = {}
    /\ req = [r \in Reqs |-> InitialReq]

\* The except branch of analyze (lines 226-227): error response, status 500.
Raise(s, cause) == [s EXCEPT !.pc = "done", !.status = 500, !.err = cause]

\* ----------------------------------------------------------------- startup
\* lines 46-49: init_model() succeeds at import
StartupOk ==
    /\ ~started
    /\ started' = TRUE
    /\ model' = "YOLO"
    /\ modelInits' = modelInits + 1
    /\ UNCHANGED <<clock, supabase, nextId, storage, records, req>>

\* lines 50-52: init_model() raises at import, the handle is left None
StartupFail ==
    /\ ~started
    /\ started' = TRUE
    /\ model' = "None"
    /\ UNCHANGED <<clock, supabase, modelInits, nextId, storage, records, req>>

\* ------------------------------------------------------------- the request
\* lines 130-141: a request arrives and is validated
Analyze_Entry(r) ==
    /\ started
    /\ req[r].pc = "idle"
    /\ IF r = 1 THEN TRUE ELSE req[r - 1].pc # "idle"
    /\ \E has_file \in BOOLEAN, name \in Filenames, mimetype \in Mimetypes :
           LET s == [req[r] EXCEPT !.has_file = has_file,
                                   !.filename = IF has_file THEN Filename(name, nextId)
                                                ELSE <<>>,
                                   !.mimetype = IF has_file THEN mimetype ELSE <<>>]
           IN  /\ nextId' = IF has_file /\ name = <<>> THEN nextId + 1 ELSE nextId
               /\ req' = [req EXCEPT ![r] =
                     IF ~has_file
                       THEN [s EXCEPT !.pc = "done", !.status = 400, !.err = "no_file"]
                     ELSE IF ~Accepted(mimetype)
                       THEN [s EXCEPT !.pc = "done", !.status = 400,
                                      !.err = "unsupported"]
                     ELSE [s EXCEPT !.pc = "check_supabase"]]
    /\ UNCHANGED <<clock, started, model, supabase, modelInits, storage, records>>

\* lines 145-146, the test: is the storage client still unset?
Analyze_CheckSupabase(r) ==
    /\ req[r].pc = "check_supabase"
    /\ req' = [req EXCEPT ![r].pc =
                 IF supabase = "None" THEN "init_supabase" ELSE "check_model"]
    /\ UNCHANGED <<clock, started, model, supabase, modelInits, nextId, storage, records>>

\* line 146 (init_supabase, lines 28-31) returns a client
Analyze_InitSupabaseOk(r) ==
    /\ req[r].pc = "init_supabase"
    /\ supabase' = "Client"
    /\ req' = [req EXCEPT ![r].pc = "check_model", ![r].nsbinit = @ + 1]
    /\ UNCHANGED <<clock, started, model, modelInits, nextId, storage, records>>

\* line 146 raises (get_env, line 24): the global is not assigned
Analyze_InitSupabaseFail(r) ==
    /\ req[r].pc = "init_supabase"
    /\ req' = [req EXCEPT ![r] = Raise([req[r] EXCEPT !.nsbinit = @ + 1], "init_supabase")]
    /\ UNCHANGED <<clock, started, model, supabase, modelInits, nextId, storage, records>>

\* The pipeline a request enters after the handles are ready (line 152).
Pipeline(s) == IF is_image(s.mimetype) THEN "image_run" ELSE "video_open"

\* faulty variant of Analyze_CheckModel: the handle is never tested
Analyze_CheckModel_Never(r) ==
    /\ req[r].pc = "check_model"
    /\ req' = [req EXCEPT ![r].pc = Pipeline(req[r])]
    /\ UNCHANGED <<clock, started, model, supabase, modelInits, nextId, storage, records>>
\* line 147, the test: is the detector still unset?
Analyze_CheckModel(r) ==
    /\ req[r].pc = "check_model"
    /\ req' = [req EXCEPT ![r].pc =
                 IF model = "None" THEN "init_model" ELSE Pipeline(req[r])]
    /\ UNCHANGED <<clock, started, model, supabase, modelInits, nextId, storage, records>>

\* line 148: init_model() returns a detector, which is assigned to the global
Analyze_InitModelOk(r) ==
    /\ req[r].pc = "init_model"
    /\ model' = "YOLO"
    /\ modelInits' = modelInits + 1
    /\ req' = [req EXCEPT ![r].pc = Pipeline(req[r]), ![r].ninit = @ + 1]
    /\ UNCHANGED <<clock, started, supabase, nextId, storage, records>>

\* faulty variant of Analyze_InitModelFail: the failure is cached in the handle
Analyze_InitModelFail_Poison(r) ==
    /\ req[r].pc = "init_model"
    /\ model' = "Failed"
    /\ req' = [req EXCEPT ![r] = Raise([req[r] EXCEPT !.ninit = @ + 1], "init_model")]
    /\ UNCHANGED <<clock, started, supabase, modelInits, nextId, storage, records>>
\* line 148 raises: the assignment does not happen, the except branch answers
Analyze_InitModelFail(r) ==
    /\ req[r].pc = "init_model"
    /\ req' = [req EXCEPT ![r] = Raise([req[r] EXCEPT !.ninit = @ + 1], "init_model")]
    /\ UNCHANGED <<clock, started, model, supabase, modelInits, nextId, storage, records>>

\* ---------------------------------------------------------- image pipeline
\* run_yolo_on_image_bytes (lines 77-88) and line 154.  The uploaded bytes
\* either decode to a frame, on which the detector finds some number of
\* boxes, or do not: cv2.imdecode then returns None and the result is passed
\* to the detector unchecked.  What the detector does with None is not fixed
\* by this code, so every outcome is allowed: it raises, or it returns some
\* detection set.
Image_Run(r) ==
    /\ req[r].pc = "image_run"
    /\ LET img == OriginalFrame(1)
       IN  IF model = "None"
             THEN req' = [req EXCEPT ![r] = Raise(req[r], "assert")]
             ELSE \/ \E decodable \in BOOLEAN :
                       req' = [req EXCEPT ![r] =
                          Raise([req[r] EXCEPT !.decodable = decodable, !.ncalls = @ + 1],
                                "detect")]
                  \/ \E boxes \in 0..MaxBoxes :
                       LET annotated == Annotate(img, boxes)
                           had == HadDetections(boxes)
                       IN  req' = [req EXCEPT ![r] =
                              [req[r] EXCEPT !.pc = "image_save", !.ncalls = @ + 1,
                                        !.decodable = TRUE, !.frames = <<boxes>>,
                                        !.had_detections = had,
                                        !.out_frame = IF had THEN annotated ELSE img]]
                  \/ \E boxes \in 0..MaxBoxes :
                       req' = [req EXCEPT ![r] =
                          IF boxes > 0
                            THEN Raise([req[r] EXCEPT !.decodable = FALSE,
                                                      !.ncalls = @ + 1], "annotate")
                            ELSE [req[r] EXCEPT !.pc = "image_save", !.ncalls = @ + 1,
                                           !.decodable = FALSE,
                                           !.had_detections = FALSE, !.img_none = TRUE]]
    /\ UNCHANGED <<clock, started, model, supabase, modelInits, nextId, storage, records>>

\* faulty variant of Image_Save: the upload step is skipped
Image_Save_SkipUpload(r) ==
    /\ req[r].pc = "image_save"
    /\ nextId' = nextId + 1
    /\ LET s == [req[r] EXCEPT !.out_id = nextId,
                                !.temp_out_path = TempOutPath(TRUE, nextId)]
       IN  req' = [req EXCEPT ![r] =
              IF s.img_none THEN Raise(s, "save")
              ELSE [s EXCEPT !.pc = "insert", !.saved = TRUE]]
    /\ UNCHANGED <<clock, started, model, supabase, modelInits, storage, records>>
\* lines 155-157: fresh out_id, save_image; cv2.imwrite raises on None
Image_Save(r) ==
    /\ req[r].pc = "image_save"
    /\ nextId' = nextId + 1
    /\ LET s == [req[r] EXCEPT !.out_id = nextId,
                                !.temp_out_path = TempOutPath(TRUE, nextId)]
       IN  req' = [req EXCEPT ![r] =
              IF s.img_none THEN Raise(s, "save")
              ELSE [s EXCEPT !.pc = "upload", !.saved = TRUE]]
    /\ UNCHANGED <<clock, started, model, supabase, modelInits, storage, records>>

\* lines 165-174: encode the preview and answer
Image_Respond(r) ==
    /\ req[r].pc = "image_respond"
    /\ req' = [req EXCEPT ![r].pc = "done", ![r].status = 200,
                          ![r].preview = req[r].out_frame,
                          ![r].violation = req[r].had_detections,
                          ![r].timestamp = req[r].record.timestamp,
                          ![r].file_url = req[r].public_url]
    /\ UNCHANGED <<clock, started, model, supabase, modelInits, nextId, storage, records>>

\* ------------------------------------------------- storage and record store
\* upload_to_supabase_storage (lines 101-110), called at lines 160 and 214
UploadOk(r) ==
    /\ req[r].pc = "upload"
    /\ LET dest == DestPath(is_image(req[r].mimetype), req[r].out_id)
       IN  /\ storage' = storage \cup {dest}
           /\ req' = [req EXCEPT ![r].pc = "insert", ![r].dest_path = dest,
                                 ![r].public_url = dest, ![r].nupload = @ + 1]
    /\ UNCHANGED <<clock, started, model, supabase, modelInits, nextId, records>>

\* the upload reports an error (line 108) or the file cannot be read
UploadFail(r) ==
    /\ req[r].pc = "upload"
    /\ LET dest == DestPath(is_image(req[r].mimetype), req[r].out_id)
       IN  req' = [req EXCEPT ![r] =
              Raise([req[r] EXCEPT !.dest_path = dest, !.nupload = @ + 1], "upload")]
    /\ UNCHANGED <<clock, started, model, supabase, modelInits, nextId, storage, records>>

Detected(s) == IF is_image(s.mimetype) THEN s.had_detections ELSE s.any_detections

\* insert_violation_record (lines 113-124), called at lines 162-163 and 215-216;
\* the video path answers right after it (lines 218-224)
InsertOk(r) ==
    /\ req[r].pc = "insert"
    /\ clock' = clock + 1
    /\ LET s == req[r]
           vt == ViolationType(Detected(s))
           data == [filename |-> s.filename, violation_type |-> vt,
                    timestamp |-> clock, file_url |-> s.public_url]
           rec == [violation_type |-> vt, timestamp |-> clock,
                   file_url |-> s.public_url]
       IN  /\ records' = records \cup {data}
           /\ req' = [req EXCEPT ![r] =
                 IF is_image(s.mimetype)
                   THEN [s EXCEPT !.pc = "image_respond", !.violation_type = vt,
                                  !.record = rec, !.ninsert = @ + 1]
                   ELSE [s EXCEPT !.pc = "done", !.status = 200, !.violation_type = vt,
                                  !.record = rec, !.timestamp = rec.timestamp,
                                  !.file_url = s.public_url,
                                  !.violation = s.any_detections, !.ninsert = @ + 1]]
    /\ UNCHANGED <<started, model, supabase, modelInits, nextId, storage>>

\* the insert reports an error (line 123)
InsertFail(r) ==
    /\ req[r].pc = "insert"
    /\ clock' = clock + 1
    /\ req' = [req EXCEPT ![r] =
          Raise([req[r] EXCEPT !.violation_type = ViolationType(Detected(req[r])),
                               !.ninsert = @ + 1], "insert")]
    /\ UNCHANGED <<started, model, supabase, modelInits, nextId, storage, records>>

\* ---------------------------------------------------------- video pipeline
\* lines 177-192: write the temporary input, open the capture; the container
\* either opens or does not.  When it is open, query its properties, take
\* out_id and create the writer (which creates the output file).
Video_Open(r) ==
    /\ req[r].pc = "video_open"
    /\ LET s == [req[r] EXCEPT !.in_id = nextId,
                                !.temp_in_path = TempInPath(nextId, req[r].filename)]
       IN  \/ /\ nextId' = nextId + 1
              /\ req' = [req EXCEPT ![r] =
                    [s EXCEPT !.pc = "done", !.status = 400, !.err = "open",
                              !.decodable = FALSE, !.cap = "unopened"]]
           \/ /\ nextId' = nextId + 2
              /\ \E reported \in ReportedFps :
                   req' = [req EXCEPT ![r] =
                      [s EXCEPT !.pc = "video_loop", !.decodable = TRUE, !.cap = "open",
                                !.reported_fps = reported, !.fps = Fps(reported),
                                !.out_id = nextId + 1,
                                !.temp_out_path = TempOutPath(FALSE, nextId + 1),
                                !.writer = "open",
                                !.saved = TRUE, !.any_detections = FALSE]]
    /\ UNCHANGED <<clock, started, model, supabase, modelInits, storage, records>>

\* lines 195-208: one iteration of the frame loop in which cap.read() returns
\* the next frame of the stream, on which the detector finds some number of
\* boxes.  The detector call, the annotation and the write may each raise;
\* calling an unset detector handle raises before any detection runs.
Video_Frame(r) ==
    /\ req[r].pc = "video_loop"
    /\ req[r].nread < MaxFrames
    /\ IF model = "None"
         THEN req' = [req EXCEPT ![r] =
                 Raise([req[r] EXCEPT !.nread = @ + 1], "uninitialised")]
         ELSE \E boxes \in 0..MaxBoxes :
                LET i == req[r].nread + 1
                    s == [req[r] EXCEPT !.nread = i, !.frames = Append(@, boxes),
                                        !.ncalls = @ + 1]
                    frame == OriginalFrame(i)
                    annotated == Annotate(frame, boxes)
                    any == Accumulate(s.any_detections, boxes)
                IN  \/ req' = [req EXCEPT ![r] = Raise(s, "detect")]
                    \/ req' = [req EXCEPT ![r] = Raise(s, "annotate")]
                    \/ req' = [req EXCEPT ![r] =
                          Raise([s EXCEPT !.any_detections = any], "write")]
                    \/ req' = [req EXCEPT ![r] =
                          [s EXCEPT !.any_detections = any,
                                    !.written = WriterWrite(s.written, annotated)]]
    /\ UNCHANGED <<clock, started, model, supabase, modelInits, nextId, storage, records>>

\* lines 196-198 and 210-211: cap.read() reports the end of the stream, the
\* loop ends, capture and writer are released
Video_EndOfStream(r) ==
    /\ req[r].pc = "video_loop"
    /\ req' = [req EXCEPT ![r].pc = "upload", ![r].cap = "released",
                          ![r].writer = "released"]
    /\ UNCHANGED <<clock, started, model, supabase, modelInits, nextId, storage, records>>

\* ------------------------------------------------------------ specification
Next ==
    \/ StartupOk
    \/ StartupFail
    \/ \E r \in Reqs : Analyze_Entry(r)
    \/ \E r \in Reqs : Analyze_CheckSupabase(r)
    \/ \E r \in Reqs : Analyze_InitSupabaseOk(r)
    \/ \E r \in Reqs : Analyze_InitSupabaseFail(r)
    \/ \E r \in Reqs : Analyze_CheckModel(r)
    \/ \E r \in Reqs : Analyze_InitModelOk(r)
    \/ \E r \in Reqs : Analyze_InitModelFail(r)
    \/ \E r \in Reqs : Image_Run(r)
    \/ \E r \in Reqs : Image_Save(r)
    \/ \E r \in Reqs : UploadOk(r)
    \/ \E r \in Reqs : UploadFail(r)
    \/ \E r \in Reqs : InsertOk(r)
    \/ \E r \in Reqs : InsertFail(r)
    \/ \E r \in Reqs : Image_Respond(r)
    \/ \E r \in Reqs : Video_Open(r)
    \/ \E r \in Reqs : Video_Frame(r)
    \/ \E r \in Reqs : Video_EndOfStream(r)

Spec == Init /\ [][Next]_vars

\* ================================================================== claims
Done(r) == req[r].pc = "done"
OnVideoPath(r) == req[r].cap # "none"
StreamOpened(r) == req[r].cap \in {"open", "released"}
\* some frame read so far has a non-empty detection set
SomeFrameDetected(r) == \E i \in 1..Len(req[r].frames) : req[r].frames[i] > 0
\* the declared content type starts with image/ or with video/
DeclaredImageOrVideo(m) == Len(m) >= 2 /\ m[1] \in {"image", "video"} /\ m[2] = "/"
Published(r) == \E d \in storage : d.id = req[r].out_id
Recorded(r) == req[r].out_id # 0 /\ \E row \in records : row.file_url.id = req[r].out_id

\* C1: once a video request has opened its stream, capture and writer are
\* both released when the request has ended, whatever the exit path.
C1_ReleasedOnEveryExit ==
    \A r \in Reqs :
        (Done(r) /\ StreamOpened(r)) =>
            (req[r].cap = "released" /\ req[r].writer = "released")

\* C2: a request that ended with an error response has left no artifact in
\* object storage and no row in the record store.
C2_NothingPublishedOnError ==
    \A r \in Reqs :
        (Done(r) /\ req[r].status >= 400) => (~Published(r) /\ ~Recorded(r))

\* C3: the verdict of a video request is the OR over the frames read of
\* "detection set non-empty"; a stream of zero frames gives the verdict false,
\* has an output artifact and is no error of the pipeline (only the upload or
\* the insert can still fail it).
C3_VideoVerdictIsOr ==
    \A r \in Reqs :
        /\ (OnVideoPath(r) /\ req[r].pc \in {"upload", "insert"}) =>
              (req[r].any_detections <=> SomeFrameDetected(r))
        /\ (OnVideoPath(r) /\ Done(r) /\ req[r].status = 200) =>
              /\ req[r].violation <=> SomeFrameDetected(r)
              /\ Published(r)
        /\ (OnVideoPath(r) /\ req[r].cap = "released" /\ req[r].frames = <<>>) =>
              /\ req[r].saved
              /\ ~req[r].any_detections
              /\ req[r].err \in {"", "upload", "insert"}

C3_Witness ==
    \E r, q \in Reqs :
        /\ OnVideoPath(r) /\ Done(r) /\ req[r].status = 200
        /\ req[r].frames = <<>> /\ ~req[r].violation
        /\ OnVideoPath(q) /\ Done(q) /\ req[q].status = 200
        /\ req[q].frames = <<1, 0>> /\ req[q].violation

\* C4: when the video cannot be opened the request ends with a client error,
\* no output sink or output file exists, and the capture object is released.
C4_FailedOpenReleasesAll ==
    \A r \in Reqs :
        (Done(r) /\ req[r].err = "open") =>
            /\ req[r].status = 400
            /\ ~req[r].saved
            /\ req[r].writer = "none"
            /\ req[r].cap \in {"none", "released"}

\* C5: a request without a file, or whose content type starts with neither
\* image/ nor video/, ends at once with a client error and has made no
\* upload, no insert, no detector call and no initialisation of either handle.
C5_RejectedHasNoEffect ==
    \A r \in Reqs :
        (req[r].pc # "idle" /\ (~req[r].has_file \/ ~DeclaredImageOrVideo(req[r].mimetype))) =>
            /\ Done(r)
            /\ req[r].status = 400
            /\ req[r].nupload = 0 /\ req[r].ninsert = 0 /\ req[r].ncalls = 0
            /\ req[r].ninit = 0 /\ req[r].nsbinit = 0
            /\ ~Recorded(r)
            /\ req[r].out_id = 0 /\ req[r].in_id = 0

C5_Witness ==
    \E r, q \in Reqs :
        /\ Done(r) /\ ~req[r].has_file /\ req[r].status = 400
        /\ Done(q) /\ req[q].has_file /\ req[q].mimetype = <<"text", "/", "plain">>
        /\ req[q].status = 400
        /\ supabase = "None" /\ model = "None"

\* C6: the frames of a video are written in input order, none skipped,
\* duplicated or reordered: while the loop runs and after a normal end of
\* stream there are as many written frames as frames read, and written frame N
\* comes from read frame N.
C6_FramesInOrder ==
    \A r \in Reqs :
        (OnVideoPath(r) /\ (req[r].pc \in {"video_loop", "upload", "insert"}
                              \/ req[r].cap = "released")) =>
            /\ Len(req[r].written) = Len(req[r].frames)
            /\ Len(req[r].frames) = req[r].nread
            /\ req[r].ncalls = req[r].nread
            /\ \A i \in 1..Len(req[r].written) : req[r].written[i].src = i

C6_Witness ==
    \E r \in Reqs :
        /\ Done(r) /\ req[r].status = 200 /\ req[r].cap = "released"
        /\ Len(req[r].frames) >= 2 /\ Len(req[r].written) = Len(req[r].frames)

\* what C7 expects to be output for frame i with n detections
ExpectedOutput(i, n) ==
    IF n = 0 THEN [src |-> i, drawn |-> 0, is_copy |-> FALSE]
    ELSE [src |-> i, drawn |-> n, is_copy |-> TRUE]

\* C7: the frame output is the original decoded frame exactly when its
\* detection set is empty and an annotated copy exactly when it is not; for a
\* video, frame by frame.
C7_AnnotatedIffDetections ==
    \A r \in Reqs :
        /\ OnVideoPath(r) =>
              \A i \in 1..Len(req[r].written) :
                 LET w == req[r].written[i]
                 IN  w = ExpectedOutput(w.src, req[r].frames[w.src])
        /\ (is_image(req[r].mimetype) /\ req[r].decodable
              /\ req[r].pc \in {"image_save", "upload", "insert", "image_respond"}) =>
              req[r].out_frame = ExpectedOutput(1, req[r].frames[1])
        /\ (is_image(req[r].mimetype) /\ Done(r) /\ req[r].status = 200) =>
              /\ req[r].preview = ExpectedOutput(1, req[r].frames[1])
              /\ req[r].preview = req[r].out_frame

C7_Witness ==
    \E r, q \in Reqs :
        /\ OnVideoPath(r) /\ req[r].frames = <<1, 0>>
        /\ req[r].written = <<[src |-> 1, drawn |-> 1, is_copy |-> TRUE],
                              [src |-> 2, drawn |-> 0, is_copy |-> FALSE]>>
        /\ is_image(req[q].mimetype) /\ Done(q) /\ req[q].status = 200
        /\ req[q].frames = <<0>> /\ req[q].preview = [src |-> 1, drawn |-> 0, is_copy |-> FALSE]

\* C8: an image upload whose bytes do not decode fails at the decode step:
\* error response, the detector is not run, nothing is saved, uploaded or
\* recorded.
C8_UndecodableImageStopsAtDecode ==
    \A r \in Reqs :
        (is_image(req[r].mimetype) /\ ~req[r].decodable
            /\ req[r].pc \in {"image_save", "upload", "insert", "image_respond", "done"}) =>
            /\ Done(r)
            /\ req[r].status >= 400
            /\ req[r].ncalls = 0
            /\ ~req[r].saved /\ req[r].nupload = 0 /\ req[r].ninsert = 0

\* C9: init_model() returns a detector at most once in the life of the
\* process, whatever the interleaving of requests.
C9_InitAtMostOnce == modelInits <= 1

PipelinePcs ==
    {"image_run", "image_save", "image_respond", "video_open", "video_loop",
     "upload", "insert"}

\* C10: a failed init_model() inside a request ends that request with an
\* error and changes nothing else (the handle stays as it was, unset when it
\* was unset); every accepted request that finds the handle unset attempts the
\* initialisation; a successful attempt sets the handle and the request goes
\* on into its pipeline; no request is in a pipeline without the detector.
C10_FailedInitDoesNotPoison ==
    [][\A r \in Reqs :
          /\ (req[r].pc = "init_model" /\ req'[r].pc = "done") =>
                /\ req'[r].status = 500
                /\ model' = model
                /\ (model = "None" => model' = "None")
                /\ <<supabase, storage, records, nextId, modelInits>>' =
                       <<supabase, storage, records, nextId, modelInits>>
                /\ \A q \in Reqs \ {r} : req'[q] = req[q]
                /\ req'[r].ncalls = 0 /\ req'[r].nupload = 0 /\ req'[r].ninsert = 0
                /\ req'[r].cap = "none" /\ req'[r].writer = "none" /\ ~req'[r].saved
          /\ (req[r].pc = "check_model" /\ req'[r].pc # "check_model") =>
                IF model = "None" THEN req'[r].pc = "init_model"
                ELSE req'[r].pc \in PipelinePcs
          /\ (req[r].pc = "init_model" /\ req'[r].pc \notin {"init_model", "done"}) =>
                (model' = "YOLO" /\ req'[r].pc \in PipelinePcs)
          /\ (req'[r].pc \in PipelinePcs) => model' = "YOLO"
      ]_vars

C10_Witness ==
    \E r, q \in Reqs :
        /\ Done(r) /\ req[r].err = "init_model" /\ req[r].status = 500
        /\ r < q /\ req[q].ninit = 1 /\ Done(q) /\ req[q].status = 200
        /\ modelInits = 1

\* no request is about to call the detector while the handle is unset, and
\* none has been answered with the error of calling an unset handle
DetectorSetWhereCalled ==
    \A r \in Reqs :
        /\ (req[r].pc \in {"image_run", "video_loop"}) => model # "None"
        /\ req[r].ncalls > 0 => model # "None"
        /\ req[r].err \notin {"assert", "uninitialised"}

\* C11: the detector is never invoked while uninitialised: wherever a request
\* calls detection (entry of the image helper, each iteration of the frame
\* loop) the handle is set, and a handle that is set is never unset again.
C11_DetectorNeverCalledUnset ==
    [][/\ DetectorSetWhereCalled
       /\ DetectorSetWhereCalled'
       /\ (model # "None" => model' # "None")]_vars

C11_Witness ==
    \E r, q \in Reqs :
        /\ r # q
        /\ modelInits = 1 /\ req[r].ninit + req[q].ninit = 1
        /\ req[r].pc = "video_loop" /\ req[r].ncalls >= 1
        /\ is_image(req[q].mimetype) /\ req[q].ncalls = 1

\* C12: the verdict of an image request is true exactly when the detection
\* set of its single frame is non-empty.
C12_ImageVerdict ==
    \A r \in Reqs :
        (is_image(req[r].mimetype) /\ Done(r) /\ req[r].status = 200) =>
            /\ Len(req[r].frames) = 1
            /\ req[r].violation <=> (req[r].frames[1] > 0)

C12_Witness ==
    \E r, q \in Reqs :
        /\ is_image(req[r].mimetype) /\ Done(r) /\ req[r].status = 200
        /\ req[r].frames = <<0>> /\ ~req[r].violation
        /\ is_image(req[q].mimetype) /\ Done(q) /\ req[q].status = 200
        /\ req[q].frames = <<1>> /\ req[q].violation

\* C13: any two requests use pairwise distinct temporary input paths,
\* temporary output paths and storage destination paths (identifiers are never
\* handed out twice); a destination path lies under images/ or videos/
\* according to the media kind and carries the request's own out_id.
C13_PathsDistinct ==
    \A r \in Reqs :
        /\ \A q \in Reqs \ {r} :
              /\ (req[r].temp_in_path # <<>> /\ req[q].temp_in_path # <<>>) =>
                    req[r].temp_in_path # req[q].temp_in_path
              /\ (req[r].temp_out_path # <<>> /\ req[q].temp_out_path # <<>>) =>
                    req[r].temp_out_path # req[q].temp_out_path
              /\ (req[r].dest_path # NoPath /\ req[q].dest_path # NoPath) =>
                    req[r].dest_path # req[q].dest_path
        /\ \A q \in Reqs :
              (req[r].temp_in_path # <<>> /\ req[q].temp_out_path # <<>>) =>
                  req[r].temp_in_path # req[q].temp_out_path
        /\ req[r].dest_path # NoPath =>
              /\ req[r].out_id # 0
              /\ req[r].dest_path.id = req[r].out_id
              /\ req[r].dest_path.ns =
                    (IF is_image(req[r].mimetype) THEN "images" ELSE "videos")
        /\ req[r].temp_in_path # <<>> => req[r].temp_in_path[1] = req[r].in_id
        /\ req[r].temp_out_path # <<>> => req[r].temp_out_path[1] = req[r].out_id

C13_Witness ==
    \E r, q \in Reqs :
        /\ r # q
        /\ req[r].filename = req[q].filename
        /\ req[r].temp_in_path # <<>> /\ req[q].temp_in_path # <<>>
        /\ req[r].pc = "video_loop" /\ req[q].pc = "video_loop"
        /\ req[r].temp_out_path # <<>> /\ req[q].temp_out_path # <<>>

\* C14: the writer's frame rate is the rate the source reports when that is
\* positive, and the fallback 24 for every other reported value.
C14_FpsFallback ==
    \A r \in Reqs :
        req[r].writer # "none" =>
            req[r].fps = (IF req[r].reported_fps > 0 THEN req[r].reported_fps ELSE 24)

\* C15: per request the effects come in the order save, upload, insert,
\* response: an insert is attempted only after that request's own upload has
\* succeeded, there is at most one upload and one insert, and the file_url of
\* the inserted row and of the response is the URL of that upload.
C15_EffectOrder ==
    \A r \in Reqs :
        /\ req[r].nupload <= 1 /\ req[r].ninsert <= 1
        /\ (req[r].pc = "upload" \/ req[r].nupload > 0) => req[r].saved
        /\ (req[r].pc \in {"insert", "image_respond"} \/ req[r].ninsert > 0
              \/ req[r].status = 200) =>
              /\ req[r].nupload = 1
              /\ req[r].dest_path = DestPath(is_image(req[r].mimetype), req[r].out_id)
              /\ req[r].dest_path \in storage
              /\ req[r].public_url = req[r].dest_path
        /\ (req[r].pc = "image_respond" \/ req[r].status = 200) =>
              /\ req[r].ninsert = 1
              /\ req[r].record.file_url = req[r].public_url
              /\ \E row \in records : row.file_url = req[r].public_url
        /\ req[r].status = 200 => req[r].file_url = req[r].public_url
        /\ (req[r].out_id # 0 /\ req[r].ninsert = 0) =>
              ~\E row \in records : row.file_url.id = req[r].out_id

C15_Witness ==
    \E r, q \in Reqs :
        /\ is_image(req[r].mimetype) /\ Done(r) /\ req[r].status = 200
        /\ is_video(req[q].mimetype) /\ Done(q) /\ req[q].status = 200
        /\ Cardinality(storage) = 2 /\ Cardinality(records) = 2

\* C16: in a successful response violation_type is "Violation Detected"
\* exactly when violation is true and "No Violation" otherwise, and the row
\* inserted for the request holds the violation_type and timestamp of the
\* response.
C16_LabelMatchesVerdict ==
    \A r \in Reqs :
        req[r].status = 200 =>
            /\ req[r].violation => req[r].violation_type = "Violation Detected"
            /\ ~req[r].violation => req[r].violation_type = "No Violation"
            /\ req[r].timestamp > 0
            /\ \E row \in records :
                  /\ row.file_url = req[r].file_url
                  /\ row.violation_type = req[r].violation_type
                  /\ row.timestamp = req[r].timestamp
                  /\ row.filename = req[r].filename

C16_Witness ==
    \E r, q \in Reqs :
        /\ is_image(req[r].mimetype) /\ req[r].status = 200 /\ req[r].violation
        /\ req[r].violation_type = "Violation Detected"
        /\ is_video(req[q].mimetype) /\ req[q].status = 200 /\ ~req[q].violation
        /\ req[q].violation_type = "No Violation"
        /\ req[r].timestamp # req[q].timestamp

====
